---- MODULE Spec2Model ----
(***************************************************************************)
(* candv: constants and their containers (src/candv/base.py).              *)
(*                                                                         *)
(* The state is the heap of the objects the library creates: Constant      *)
(* instances, lazy group descriptors (_LazyConstantsGroup) and the class   *)
(* objects the metaclass _ConstantsContainerMeta creates (containers and   *)
(* groups), plus the process-wide creation counter.  Every operation is    *)
(* one action; `last` records the call just made and how it ended.         *)
(***************************************************************************)
EXTENDS Integers, Sequences, FiniteSets, TLC

VARIABLES
    creation_counter,   \* Constant._creation_counter (class attribute)
    consts,             \* Constant instances, in construction order
    lazies,             \* _LazyConstantsGroup instances
    classes,            \* class objects made by _ConstantsContainerMeta.__new__
    namespace,          \* the class body / keyword dict being written
    shadowed,           \* the objects the body has assigned and then replaced
    threads,            \* the threads inside Constant.__init__
    last                \* the last step: operation, argument, outcome

vars == <<creation_counter, consts, lazies, classes, namespace, shadowed,
          threads, last>>

(*************************** bounds of the model ***************************)
MaxConstants == 2       \* Constant instances constructed
MaxLazies == 2          \* descriptors to_group returns
MaxClasses == 3         \* class objects created (containers, groups)
MaxObjects == 4         \* constructor calls, to_group calls, class statements
MaxAttrs == 2           \* attributes of one class body
MaxMembers == 1         \* members of one descriptor
MaxShadowed == 1        \* assignments of one body that replace an earlier one
MaxThreads == 2         \* threads that construct constants concurrently

ClassNames == {"FOO"}
AttrNames == {"A", "B"}
\* Constant subclasses of candv/__init__.py constructed here
ConstantClasses == {"Constant", "ValueConstant"}
\* what a class body may set as constant_class besides a Constant subclass
InvalidClasses == {"int", "NoneType"}
\* constant_class of the classes passed as group_class (Constants)
GroupClasses == {"Constant"}

(***************************** Python values *******************************)
None == "<None>"
NoClass == 0

ConstRef(i) == [kind |-> "const", id |-> i]
LazyRef(i) == [kind |-> "lazy", id |-> i]
ClassRef(i) == [kind |-> "class", id |-> i]
\* an object that is neither a Constant nor a descriptor nor a container
Other == [kind |-> "other", id |-> 1]
\* no object
NoObject == [kind |-> "none", id |-> 0]

\* True and False, and the integers
PyBool(b) == [kind |-> "bool", id |-> IF b THEN 1 ELSE 0]
PyInt(n) == [kind |-> "int", id |-> n]
\* the n-th of the strings a program passes as verbose_name or help_text
PyStr(n) == [kind |-> "str", id |-> n]

\* str.format of a value: None prints as "None"
Format(x) == IF x = None THEN "None" ELSE x

\* issubclass(a, b) over the Constant hierarchy of candv/__init__.py
IsSubclass(a, b) ==
    \/ a = b
    \/ a \in {"ValueConstant", "VerboseConstant", "VerboseValueConstant"}
       /\ b = "Constant"
    \/ a = "VerboseValueConstant" /\ b = "ValueConstant"

\* raise e: the exception's type and the object its message is about
Raise(h, e, about) == [h EXCEPT !.err = e, !.about = about]

(******************************* Constant **********************************)
\* the attributes the constructors of candv/__init__.py add to a Constant:
\* ValueConstant.__init__ sets value, VerboseMixin.__init__ sets
\* verbose_name and help_text
PayloadInit(cls, value, verbose_name, help_text) ==
    [a \in (IF IsSubclass(cls, "ValueConstant") THEN {"value"} ELSE {})
           \cup (IF cls \in {"VerboseConstant", "VerboseValueConstant"}
                 THEN {"verbose_name", "help_text"} ELSE {})
        |-> CASE a = "value" -> value
              [] a = "verbose_name" -> verbose_name
              [] OTHER -> help_text]

\* the counter not copied: every instance with the token zero
ConstantInit_Zero(cls, counter) ==
    [cls |-> cls, name |-> None, container |-> NoClass,
     creation_counter |-> 0,
     payload |-> PayloadInit("Constant", NoObject, NoObject, NoObject)]

\* Constant.__init__: name and container None, the counter copied
ConstantInit(cls, counter) ==
    [cls |-> cls, name |-> None, container |-> NoClass,
     creation_counter |-> counter,
     payload |-> PayloadInit("Constant", NoObject, NoObject, NoObject)]

\* the name set, the container left as it was
post_init_NameOnly(h, c, name, container) ==
    [h EXCEPT !.consts[c].name = name]

\* Constant._post_init(name, container=None)
post_init(h, c, name, container) ==
    [h EXCEPT !.consts[c].name = name, !.consts[c].container = container]

\* setattr(cls, name, obj)
setattr(h, cid, name, obj) ==
    [h EXCEPT !.classes[cid].attrs =
        {a \in @ : a[1] # name} \cup {<<name, obj>>}]

\* Constant.merge_into_group(group): the counter copied
Constant_merge_into_group(h, c, group) ==
    [h EXCEPT !.classes[group].creation_counter = h.consts[c].creation_counter]

\* the value not copied
ValueConstant_merge_Nothing(h, c, group) == h

\* ValueConstant.merge_into_group(group), after the call of super
ValueConstant_merge_into_group(h, c, group) ==
    setattr(h, group, "value", h.consts[c].payload["value"])

\* VerboseMixin.merge_into_group(group), after the call of super
VerboseMixin_merge_into_group(h, c, group) ==
    setattr(setattr(h, group, "verbose_name",
                    h.consts[c].payload["verbose_name"]),
            group, "help_text", h.consts[c].payload["help_text"])

\* the counter not copied
merge_into_group_Nothing(h, c, group) == h

\* constant.merge_into_group(group) of the class of the constant: each
\* override calls super first
merge_into_group(h, c, group) ==
    LET h1 == Constant_merge_into_group(h, c, group)
        h2 == IF IsSubclass(h.consts[c].cls, "ValueConstant")
              THEN ValueConstant_merge_into_group(h1, c, group) ELSE h1
    IN  IF h.consts[c].cls \in {"VerboseConstant", "VerboseValueConstant"}
        THEN VerboseMixin_merge_into_group(h2, c, group) ELSE h2

\* _ConstantsContainerMeta.__len__: len(self._constants); a class whose
\* definition did not reach the assignment of _constants finds the mapping
\* of its base class: the empty one of ConstantsContainer, Constants and
\* Values, or that of the finalized container it subclasses
len(ks, k) ==
    IF ks[k].finalized THEN Len(ks[k].constants)
    ELSE IF ks[k].base # NoClass THEN Len(ks[ks[k].base].constants)
    ELSE 0

\* Constant.full_name; `if self.container` is false for None and for a
\* class object of length 0
full_name(cs, ks, c) ==
    LET prefix == IF cs[c].container # NoClass /\ len(ks, cs[c].container) # 0
                  THEN ks[cs[c].container].full_name
                  ELSE "__UNBOUND__"
    IN  prefix \o "." \o Format(cs[c].name)

(************************** _LazyConstantsGroup ****************************)
\* names _evaluate puts into group_members, overwriting members so named
SpecialNames == {"name", "full_name", "container", "__repr"}

\* every value accepted
IsMember_Any(obj) == TRUE

\* isinstance(obj, (Constant, _LazyConstantsGroup))
IsMember(obj) == obj.kind \in {"const", "lazy"}

\* _LazyConstantsGroup.__init__: the descriptor it leaves
LazyInit(constant, group_class, group_members) ==
    [constant |-> constant, group_class |-> group_class,
     group_members |-> group_members, live |-> TRUE]

\* a descriptor after del self.constant, self.group_class, self.group_members
Spent == [constant |-> 0, group_class |-> None, group_members |-> <<>>,
          live |-> FALSE]

\* _LazyConstantsGroup._get_to_primitive(group, constant): the function it
\* returns, which keeps its two arguments; _evaluate passes the anchor as
\* `group` and the group as `constant`, and the group is the class the
\* function is then bound to
get_to_primitive(group, constant) == [kind |-> "method", id |-> group]

\* the descriptor kept as it is
Discard_Nothing(h, l) == h

\* the three del statements that end _evaluate
Discard(h, l) == [h EXCEPT !.lazies[l] = Spent]

(************************ _ConstantsContainerMeta **************************)
\* _creation_counter of a member of the constants list
CounterOf(h, obj) ==
    IF obj.kind = "const" THEN h.consts[obj.id].creation_counter
    ELSE h.classes[obj.id].creation_counter

\* list.sort(key=...): stable insertion of one pair into a sorted list
RECURSIVE InsertSorted(_, _, _)
InsertSorted(h, sorted, pair) ==
    IF sorted = <<>> THEN <<pair>>
    ELSE IF CounterOf(h, pair[2]) < CounterOf(h, sorted[1][2])
         THEN <<pair>> \o sorted
         ELSE <<sorted[1]>> \o InsertSorted(h, Tail(sorted), pair)

RECURSIVE SortRev(_, _)
\* stable sort: the pairs are inserted last first, each before its equals
SortRev(h, pairs) ==
    IF pairs = <<>> THEN <<>>
    ELSE LET rest == SortRev(h, Tail(pairs))
         IN  IF rest = <<>> THEN <<pairs[1]>>
             ELSE IF CounterOf(h, pairs[1][2]) <= CounterOf(h, rest[1][2])
                  THEN <<pairs[1]>> \o rest
                  ELSE <<rest[1]>> \o InsertSorted(h, Tail(rest), pairs[1])

\* the list left in scan order
SortByCounter_None(h, pairs) == pairs

\* constants.sort(key=lambda x: x[1]._creation_counter)
SortByCounter(h, pairs) == SortRev(h, pairs)

\* every Constant taken for an instance of constant_class
IsOwnedClass_Any(h, c, cid) == TRUE

\* isinstance(the_object, cls.constant_class)
IsOwnedClass(h, c, cid) ==
    IsSubclass(h.consts[c].cls, h.classes[cid].constant_class)

\* the check left out: a bound constant is bound again
AlreadyBound_Never(h, c) == FALSE

\* the_object.container is not None
AlreadyBound(h, c) == h.consts[c].container # NoClass

\* every value accepted as constant_class
IsConstantClass_Any(constant_class) == TRUE

\* issubclass(constant_class, Constant); issubclass raises TypeError itself
\* when constant_class is None
IsConstantClass(constant_class) ==
    constant_class \in {"Constant", "ValueConstant", "VerboseConstant",
                        "VerboseValueConstant"}

\* "{0}.{1}".format(parent.full_name, name)
GroupFullName(parentFullName, name) == parentFullName \o "." \o Format(name)

\* the class object type.__new__ returns, before the scan; its attributes
\* are filled in by ClassDict
NewClass(name, fullName, container, constant_class) ==
    [name |-> name, full_name |-> fullName, container |-> container,
     constant_class |-> constant_class, constants |-> <<>>,
     creation_counter |-> -1, finalized |-> FALSE, attrs |-> {},
     base |-> NoClass]

\* the __dict__ type.__new__ gives the class: one entry per attribute
ClassDict(attributes) == {attributes[i] : i \in 1..Len(attributes)}

RECURSIVE Scan(_, _, _, _), MetaNew(_, _, _, _, _, _), evaluate(_, _, _, _)

\* _LazyConstantsGroup._evaluate(parent, name); the group is the last class
evaluate(h, l, parent, name) ==
    IF ~h.lazies[l].live THEN Raise(h, "AttributeError", LazyRef(l))
    ELSE
    LET fullName == GroupFullName(h.classes[parent].full_name, name)
        d == h.lazies[l]
        members == SelectSeq(d.group_members,
                             LAMBDA p: p[1] \notin SpecialNames)
        h1 == [h EXCEPT !.lazies[l].group_members = members]
        h2 == MetaNew(h1, name, fullName, parent, d.group_class, members)
    IN  IF h2.err # "ok" THEN h2
        ELSE LET h3 == merge_into_group(h2, d.constant, h2.made)
                 h4 == setattr(h3, h2.made, "to_primitive",
                               get_to_primitive(d.constant, h2.made))
             IN  Discard(h4, l)

\* the loop of __new__ over the attributes; acc is the list `constants`
Scan(h, cid, attributes, acc) ==
    IF attributes = <<>> THEN [h EXCEPT !.acc = acc]
    ELSE
    LET name == attributes[1][1]
        the_object == attributes[1][2]
    IN  IF the_object.kind = "lazy" THEN
            LET h1 == evaluate(h, the_object.id, cid, name)
            IN  IF h1.err # "ok" THEN h1
                ELSE Scan(setattr(h1, cid, name, ClassRef(h1.made)), cid,
                          Tail(attributes),
                          Append(acc, <<name, ClassRef(h1.made)>>))
        ELSE IF the_object.kind = "const"
                /\ IsOwnedClass(h, the_object.id, cid) THEN
            IF AlreadyBound(h, the_object.id)
            THEN Raise(h, "ValueError", the_object)
            ELSE Scan(post_init(h, the_object.id, name, cid), cid,
                      Tail(attributes), Append(acc, <<name, the_object>>))
        ELSE IF the_object.kind = "const" THEN
            Scan(post_init(h, the_object.id, name, NoClass), cid,
                 Tail(attributes), acc)
        ELSE Scan(h, cid, Tail(attributes), acc)

\* _ConstantsContainerMeta.__new__; on success h.made is the new class
MetaNew(h, name, fullName, container, constant_class, attributes) ==
    IF ~IsConstantClass(constant_class) THEN Raise(h, "TypeError", NoObject)
    ELSE
    LET cid == Len(h.classes) + 1
        h1 == [h EXCEPT !.classes =
                 Append(@, [NewClass(name, fullName, container, constant_class)
                               EXCEPT !.attrs = ClassDict(attributes)])]
        h2 == Scan(h1, cid, attributes, <<>>)
    IN  IF h2.err # "ok" THEN h2
        ELSE [h2 EXCEPT !.classes[cid].constants = SortByCounter(h2, h2.acc),
                        !.classes[cid].finalized = TRUE,
                        !.made = cid]

\* what the program has created so far: constants, descriptors and the
\* classes of its class statements (the groups come with their descriptors)
Created(cs, ls, ks) ==
    Len(cs) + Len(ls) + Cardinality({k \in 1..Len(ks) : ks[k].container = NoClass})

(******************************** inputs ***********************************)
\* the objects a program can hold and put into a body or a to_group call
Objects ==
    {ConstRef(i) : i \in 1..Len(consts)}
    \cup {LazyRef(i) : i \in 1..Len(lazies)}
    \cup {ClassRef(k) : k \in {j \in 1..Len(classes) :
                                  /\ classes[j].finalized
                                  /\ classes[j].container # NoClass}}
    \cup {Other}

Keys(d) == {d[i][1] : i \in 1..Len(d)}

\* an assignment that keeps the earlier entry of the name beside the new one
SetItem_Append(d, name, obj) == Append(d, <<name, obj>>)

\* d[name] = obj on an ordered dict: a known key keeps its place
SetItem(d, name, obj) ==
    IF name \in Keys(d)
    THEN [i \in 1..Len(d) |-> IF d[i][1] = name THEN <<name, obj>> ELSE d[i]]
    ELSE Append(d, <<name, obj>>)

\* d[name]
Lookup(d, name) == d[CHOOSE i \in 1..Len(d) : d[i][1] = name][2]

(******************************* actions ***********************************)
\* the heap an operation works on
Heap == [consts |-> consts, lazies |-> lazies, classes |-> classes,
         err |-> "ok", about |-> NoObject, made |-> 0, acc |-> <<>>,
         val |-> NoObject]

\* a step that is no call of the library, or one that cannot fail
Idle == [op |-> "none", err |-> "ok", about |-> NoObject, ret |-> 0,
         arg |-> None, self |-> NoObject, other |-> NoObject,
         val |-> NoObject]

\* the threads of the program, and a thread that is not constructing
Threads == 1..MaxThreads
NoThread == [pc |-> "idle", self |-> 0, loaded |-> 0, built |-> 0]

Init ==
    /\ creation_counter = 0
    /\ consts = <<>>
    /\ lazies = <<>>
    /\ classes = <<>>
    /\ namespace = <<>>
    /\ shadowed = {}
    /\ threads = [t \in Threads |-> NoThread]
    /\ last = Idle

\* c = cls(...): the __init__ of cls, which calls Constant.__init__
Construct(cls, value, verbose_name, help_text) ==
    /\ Len(consts) < MaxConstants
    /\ Created(consts, lazies, classes) < MaxObjects
    /\ consts' = Append(consts,
                    [ConstantInit(cls, creation_counter) EXCEPT
                        !.payload = PayloadInit(cls, value, verbose_name,
                                                help_text)])
    /\ creation_counter' = creation_counter + 1
    /\ last' = Idle
    /\ UNCHANGED <<lazies, classes, namespace, shadowed, threads>>

\* Constant.__init__ run by thread t, statement by statement.  First the
\* assignments of name, container and _creation_counter (lines 28-32): the
\* new instance holds the counter as the thread reads it
ThreadCopy(t, cls) ==
    /\ threads[t].pc = "idle"
    /\ threads[t].built < MaxConstants
    /\ consts' = Append(consts, ConstantInit(cls, creation_counter))
    /\ threads' = [threads EXCEPT ![t].pc = "load",
                                  ![t].self = Len(consts) + 1]
    /\ last' = Idle
    /\ UNCHANGED <<creation_counter, lazies, classes, namespace, shadowed>>

\* Constant._creation_counter += 1 (line 33), its read
ThreadLoad(t) ==
    /\ threads[t].pc = "load"
    /\ threads' = [threads EXCEPT ![t].pc = "store",
                                  ![t].loaded = creation_counter]
    /\ last' = Idle
    /\ UNCHANGED <<creation_counter, consts, lazies, classes, namespace,
                   shadowed>>

\* Constant._creation_counter += 1 (line 33), its write; __init__ returns
ThreadStore(t) ==
    /\ threads[t].pc = "store"
    /\ creation_counter' = threads[t].loaded + 1
    /\ threads' = [threads EXCEPT ![t] = [NoThread EXCEPT
                                            !.built = threads[t].built + 1]]
    /\ last' = Idle
    /\ UNCHANGED <<consts, lazies, classes, namespace, shadowed>>

\* the value a program gives its ValueConstants when it matters to nothing
DefaultValue == PyInt(0)

\* c = cls(), and c = cls(value) for a class that takes a value; the
\* verbose_name and help_text left to their default, None
NewConstant(cls) == Construct(cls, DefaultValue, NoObject, NoObject)

\* name = obj in a class body, or one keyword argument of a to_group call,
\* for a name the body has not assigned yet; the first statement of a body
\* starts a new record of what the body replaces
Assign(name, obj) ==
    /\ name \notin Keys(namespace)
    /\ Len(namespace) < MaxAttrs
    /\ namespace' = SetItem(namespace, name, obj)
    /\ shadowed' = IF namespace = <<>> THEN {} ELSE shadowed
    /\ last' = Idle
    /\ UNCHANGED <<creation_counter, consts, lazies, classes, threads>>

\* name = obj in a class body for a name the body has assigned before
Reassign(name, obj) ==
    /\ name \in Keys(namespace)
    /\ Cardinality(shadowed) < MaxShadowed
    /\ namespace' = SetItem(namespace, name, obj)
    /\ shadowed' = shadowed \cup {Lookup(namespace, name)}
    /\ last' = Idle
    /\ UNCHANGED <<creation_counter, consts, lazies, classes, threads>>

\* the first member _LazyConstantsGroup.__init__ rejects, or NoObject
BadMember(members) ==
    IF \E i \in 1..Len(members) : ~IsMember(members[i][2])
    THEN members[CHOOSE i \in 1..Len(members) :
                    /\ ~IsMember(members[i][2])
                    /\ \A j \in 1..(i - 1) : IsMember(members[j][2])][2]
    ELSE NoObject

\* constant.to_group(group_class, **namespace)
ToGroup(constant, group_class) ==
    LET bad == BadMember(namespace)
    IN  /\ namespace' = <<>>
        /\ IF bad # NoObject
           THEN /\ last' = [op |-> "to_group", err |-> "TypeError",
                            about |-> bad, ret |-> constant, arg |-> None,
                            self |-> NoObject, other |-> NoObject,
                            val |-> NoObject]
                /\ UNCHANGED lazies
           ELSE /\ Len(lazies) < MaxLazies
                /\ Len(namespace) <= MaxMembers
                /\ Created(consts, lazies, classes) < MaxObjects
                /\ lazies' = Append(lazies,
                                LazyInit(constant, group_class, namespace))
                /\ last' = [op |-> "to_group", err |-> "ok",
                            about |-> LazyRef(Len(lazies) + 1),
                            ret |-> constant, arg |-> None,
                            self |-> NoObject, other |-> NoObject,
                            val |-> NoObject]
        /\ UNCHANGED <<creation_counter, consts, classes, shadowed, threads>>

\* class class_name(ConstantsContainer): constant_class = ...; <namespace>
Define(class_name, constant_class) ==
    LET h == MetaNew(Heap, class_name, class_name, NoClass,
                     constant_class, namespace)
    IN  /\ Len(h.classes) <= MaxClasses
        /\ Created(h.consts, h.lazies, h.classes) <= MaxObjects
        /\ consts' = h.consts
        /\ lazies' = h.lazies
        /\ classes' = h.classes
        /\ namespace' = <<>>
        /\ last' = [op |-> "define", err |-> h.err, about |-> h.about,
                    ret |-> IF h.err = "ok" THEN h.made ELSE 0,
                    arg |-> constant_class, self |-> NoObject,
                    other |-> NoObject, val |-> NoObject]
        /\ UNCHANGED <<creation_counter, shadowed, threads>>

\* a class statement whose body sets no constant_class
Inherit == "<inherit>"

\* class class_name(base): <namespace>, for a finalized container base; the
\* constant_class of the new class is the one its body sets, or else the
\* one found on base; the new class has base as its base class
DefineSubclass(class_name, base, constant_class) ==
    LET k == IF constant_class = Inherit THEN classes[base].constant_class
             ELSE constant_class
        h0 == MetaNew(Heap, class_name, class_name, NoClass, k, namespace)
        h == IF Len(h0.classes) > Len(classes)
             THEN [h0 EXCEPT !.classes[Len(classes) + 1].base = base]
             ELSE h0
    IN  /\ Len(h.classes) <= MaxClasses
        /\ Created(h.consts, h.lazies, h.classes) <= MaxObjects
        /\ consts' = h.consts
        /\ lazies' = h.lazies
        /\ classes' = h.classes
        /\ namespace' = <<>>
        /\ last' = [op |-> "define", err |-> h.err, about |-> h.about,
                    ret |-> IF h.err = "ok" THEN h.made ELSE 0,
                    arg |-> k, self |-> NoObject,
                    other |-> ClassRef(base), val |-> NoObject]
        /\ UNCHANGED <<creation_counter, shadowed, threads>>

\* a class statement whose body uses none of the names _evaluate sets
DefinePlain(class_name, constant_class) ==
    /\ Keys(namespace) \cap SpecialNames = {}
    /\ Define(class_name, constant_class)

Next ==
    \/ \E cls \in ConstantClasses : NewConstant(cls)
    \/ \E n \in AttrNames, o \in Objects : Assign(n, o)
    \/ \E c \in 1..Len(consts), g \in GroupClasses : ToGroup(c, g)
    \/ \E n \in ClassNames, k \in ConstantClasses \cup InvalidClasses :
          Define(n, k)

Spec == Init /\ [][Next]_vars

(******************************* accessors *********************************)
\* _ConstantsContainerMeta.names(): the keys of cls._constants, in order
names(ks, k) == [i \in 1..Len(ks[k].constants) |-> ks[k].constants[i][1]]

\* _ConstantsContainerMeta.constants(): the values of cls._constants
constants(ks, k) == [i \in 1..Len(ks[k].constants) |-> ks[k].constants[i][2]]

\* _ConstantsContainerMeta.__contains__: name in self._constants
contains(ks, k, name) == \E i \in 1..Len(ks[k].constants) :
                            ks[k].constants[i][1] = name

\* _ConstantsContainerMeta.has_name: name in self
has_name(ks, k, name) == contains(ks, k, name)

\* _ConstantsContainerMeta.iternames(): six.iterkeys(self._constants)
iternames(ks, k) == [i \in 1..Len(ks[k].constants) |-> ks[k].constants[i][1]]

\* _ConstantsContainerMeta.__iter__: self.iternames()
iter(ks, k) == iternames(ks, k)

\* _ConstantsContainerMeta.items(): the (name, constant) pairs, in order
items(ks, k) == [i \in 1..Len(ks[k].constants) |->
                    <<ks[k].constants[i][1], ks[k].constants[i][2]>>]

\* a lookup that takes the entry out of the mapping, as dict.pop does
getitem_Pop(h, k, name) ==
    [h EXCEPT !.classes[k].constants = SelectSeq(@, LAMBDA p : p[1] # name)]

\* a lookup that answers None for a name it does not find
getitem_Lenient(h, k, name) ==
    IF contains(h.classes, k, name)
    THEN [h EXCEPT !.val = Lookup(h.classes[k].constants, name)]
    ELSE h

\* _ConstantsContainerMeta.__getitem__: self._constants[name], or KeyError
\* with the name and the container in its message
getitem(h, k, name) ==
    IF contains(h.classes, k, name)
    THEN [h EXCEPT !.val = Lookup(h.classes[k].constants, name)]
    ELSE Raise(h, "KeyError", ClassRef(k))

\* _ConstantsContainerMeta.get: self[name] if name in self else default
get(h, k, name, default) ==
    IF contains(h.classes, k, name) THEN getitem(h, k, name)
    ELSE [h EXCEPT !.val = default]

\* a constructor that raises nothing
ContainerNew_Allowed(h, cls) == h

\* ConstantsContainer.__new__(cls): raise TypeError
ContainerNew(h, cls) == Raise(h, "TypeError", cls)

\* hash of a str: equal strings hash alike; that different strings hash
\* differently is not relied on
StrHash(str) == <<"hash", str>>

\* Constant.__hash__: hash(self.full_name)
hash(cs, ks, c) == StrHash(full_name(cs, ks, c))

\* the equality of object: identity
eq_Identity(cs, ks, c, other) == other = ConstRef(c)

\* Constant.__eq__: isinstance(other, Constant) and equal full names
eq(cs, ks, c, other) ==
    /\ other.kind = "const"
    /\ full_name(cs, ks, c) = full_name(cs, ks, other.id)

\* Constant.__ne__: not (self == other)
ne(cs, ks, c, other) == ~eq(cs, ks, c, other)

\* Constant.to_primitive: {'name': self.name}; no class of candv/__init__.py
\* overrides it
Constant_to_primitive(cs, c) == "name" :> cs[c].name

\* primitive.update(other): the entries of other replace those of primitive
Update(primitive, other) == other @@ primitive

\* x.to_primitive() for a Constant, a container or a group x.  A container
\* answers with _ConstantsContainerMeta.to_primitive: its name and the
\* primitives of its members in order.  A group answers with the function
\* _get_to_primitive returned for it: the primitive of its anchor, updated
\* with that of the group taken as a container
RECURSIVE to_primitive(_, _, _)
to_primitive(cs, ks, x) ==
    IF x.kind = "const" THEN Constant_to_primitive(cs, x.id)
    ELSE
    LET k == x.id
        meta == ("name" :> ks[k].name)
                  @@ ("items" :> [i \in 1..Len(ks[k].constants) |->
                                    to_primitive(cs, ks, ks[k].constants[i][2])])
        bound == {a \in ks[k].attrs :
                     a[1] = "to_primitive" /\ a[2].kind = "method"}
    IN  IF bound = {} THEN meta
        ELSE Update(Constant_to_primitive(cs, (CHOOSE a \in bound : TRUE)[2].id),
                    meta)

(************************ the containers in use ****************************)
\* the classes the program can name: ConstantsContainer itself (id 0) and
\* the containers and groups whose definition succeeded
BaseContainer == ClassRef(0)
Finalized == {k \in 1..Len(classes) : classes[k].finalized}

\* the attribute names of the bodies: an ordinary one and the name of a
\* method of the metaclass
UseNames == {"A", "get"}
ViewNames == {"A", "has_name"}

\* the names looked up, and the defaults passed to get (None when omitted)
LookupNames == {"A", "missing"}
Defaults == {NoObject, Other}

\* the attributes found on class k: those of its own __dict__ and, for the
\* names it does not define, those of the container it subclasses
RECURSIVE ClassAttrs(_, _)
ClassAttrs(ks, k) ==
    IF ks[k].base = NoClass THEN ks[k].attrs
    ELSE ks[k].attrs
            \cup {a \in ClassAttrs(ks, ks[k].base) :
                     \A b \in ks[k].attrs : b[1] # a[1]}

\* cls.attr(...) for a method attr of the metaclass: the __dict__ of the
\* class is searched before the metaclass, and what a body put there under
\* that name (a Constant, a group, any object) is called instead of the
\* method, which raises TypeError; result is the heap the method leaves
CallMethod(h, k, attr, result) ==
    IF \E a \in ClassAttrs(h.classes, k) : a[1] = attr
    THEN Raise(h, "TypeError",
               (CHOOSE a \in ClassAttrs(h.classes, k) : a[1] = attr)[2])
    ELSE result

\* the outcome of a call on the heap h it leaves
Outcome(h, op, self, arg, other) ==
    /\ consts' = h.consts
    /\ lazies' = h.lazies
    /\ classes' = h.classes
    /\ last' = [op |-> op, err |-> h.err, about |-> h.about, ret |-> 0,
                arg |-> arg, self |-> self, other |-> other, val |-> h.val]
    /\ UNCHANGED <<creation_counter, namespace, shadowed, threads>>

\* cls[name], at module level
GetItem(k, name) ==
    /\ namespace = <<>>
    /\ Outcome(getitem(Heap, k, name), "getitem", ClassRef(k), name, NoObject)

\* cls.get(name, default)
Get(k, name, default) ==
    /\ namespace = <<>>
    /\ Outcome(CallMethod(Heap, k, "get", get(Heap, k, name, default)),
               "get", ClassRef(k), name, default)

\* cls.has_name(name)
HasName(k, name) ==
    /\ namespace = <<>>
    /\ Outcome(CallMethod(Heap, k, "has_name",
                          [Heap EXCEPT !.val =
                              PyBool(has_name(classes, k, name))]),
               "has_name", ClassRef(k), name, NoObject)

\* len(cls)
CallLen(k) ==
    /\ namespace = <<>>
    /\ Outcome([Heap EXCEPT !.val = PyInt(len(classes, k))],
               "len", ClassRef(k), None, NoObject)

\* name in cls
Contains(k, name) ==
    /\ namespace = <<>>
    /\ Outcome([Heap EXCEPT !.val = PyBool(contains(classes, k, name))],
               "in", ClassRef(k), name, NoObject)

\* cls(): an attempt to instantiate a container
Instantiate(cls) ==
    /\ namespace = <<>>
    /\ Outcome(ContainerNew(Heap, cls), "new", cls, None, NoObject)

\* c == other
Compare(c, other) ==
    /\ namespace = <<>>
    /\ Outcome([Heap EXCEPT !.val = PyBool(eq(consts, classes, c, other))],
               "eq", ConstRef(c), None, other)

\* hash(c) == hash(d)
CompareHash(c, d) ==
    /\ namespace = <<>>
    /\ Outcome([Heap EXCEPT !.val = PyBool(hash(consts, classes, c)
                                             = hash(consts, classes, d))],
               "hash", ConstRef(c), None, ConstRef(d))

\* a dict as a Python value
PyDict(d) == [kind |-> "dict", id |-> 0, dict |-> d]

\* x.to_primitive(), at module level
ToPrimitive(x) ==
    /\ namespace = <<>>
    /\ Outcome([Heap EXCEPT !.val = PyDict(to_primitive(consts, classes, x))],
               "to_primitive", x, None, NoObject)

\* containers of SimpleConstant built, then looked up, instantiated and
\* their constants compared
UseClasses == {"Constant"}

NextUse ==
    \/ \E cls \in UseClasses : NewConstant(cls)
    \/ \E n \in UseNames, o \in Objects : Assign(n, o)
    \/ \E c \in 1..Len(consts), g \in GroupClasses : ToGroup(c, g)
    \/ \E n \in ClassNames, k \in UseClasses \cup InvalidClasses : Define(n, k)
    \/ \E k \in Finalized, n \in LookupNames : GetItem(k, n)
    \/ \E k \in Finalized, n \in LookupNames, d \in Defaults : Get(k, n, d)
    \/ \E cls \in {BaseContainer} \cup {ClassRef(k) : k \in Finalized} :
          Instantiate(cls)
    \/ \E c \in 1..Len(consts), o \in Objects : Compare(c, o)
    \/ \E c, d \in 1..Len(consts) : CompareHash(c, d)

SpecUse == Init /\ [][NextUse]_vars

\* containers of SimpleConstant built, then seen through their accessors
NextViews ==
    \/ \E cls \in UseClasses : NewConstant(cls)
    \/ \E n \in ViewNames, o \in Objects : Assign(n, o)
    \/ \E c \in 1..Len(consts), g \in GroupClasses : ToGroup(c, g)
    \/ \E n \in ClassNames, k \in UseClasses : Define(n, k)
    \/ \E k \in Finalized : CallLen(k)
    \/ \E k \in Finalized, n \in LookupNames : Contains(k, n)
    \/ \E k \in Finalized, n \in LookupNames : HasName(k, n)

SpecViews == Init /\ [][NextViews]_vars

\* class bodies that assign a name twice
NextBody ==
    \/ \E cls \in UseClasses : NewConstant(cls)
    \/ \E n \in AttrNames, o \in Objects : Assign(n, o)
    \/ \E n \in AttrNames, o \in Objects : Reassign(n, o)
    \/ \E n \in ClassNames, k \in UseClasses : Define(n, k)

SpecBody == Init /\ [][NextBody]_vars

\* constants with a payload constructed, put into containers and groups,
\* and the primitives of constants, containers and groups taken
PayloadClasses == {"Constant", "ValueConstant", "VerboseConstant",
                   "VerboseValueConstant"}
PayloadNames == {"A"}
PayloadValues == {PyInt(1), PyInt(2)}
VerboseNames == {NoObject, PyStr(1)}
HelpTexts == {PyStr(2)}
PayloadContainers == {"ValueConstant", "VerboseValueConstant"}

NextPayload ==
    \/ \E cls \in PayloadClasses, v \in PayloadValues, n \in VerboseNames,
          t \in HelpTexts : Construct(cls, v, n, t)
    \/ \E n \in PayloadNames, o \in Objects : Assign(n, o)
    \/ \E c \in 1..Len(consts), g \in GroupClasses : ToGroup(c, g)
    \/ \E n \in ClassNames, k \in PayloadContainers : Define(n, k)
    \/ \E x \in {ConstRef(c) : c \in 1..Len(consts)}
                  \cup {ClassRef(k) : k \in Finalized} : ToPrimitive(x)

SpecPayload == Init /\ [][NextPayload]_vars

\* containers and groups of constants of two classes built, and their
\* primitives taken
NextPrimitive ==
    \/ \E cls \in ConstantClasses : NewConstant(cls)
    \/ \E n \in AttrNames, o \in Objects : Assign(n, o)
    \/ \E c \in 1..Len(consts), g \in GroupClasses : ToGroup(c, g)
    \/ \E n \in ClassNames, k \in ConstantClasses : Define(n, k)
    \/ \E k \in Finalized : ToPrimitive(ClassRef(k))

SpecPrimitive == Init /\ [][NextPrimitive]_vars

\* threads that construct constants with no lock between them
NextThreads ==
    \/ \E t \in Threads, cls \in ConstantClasses : ThreadCopy(t, cls)
    \/ \E t \in Threads : ThreadLoad(t)
    \/ \E t \in Threads : ThreadStore(t)

SpecThreads == Init /\ [][NextThreads]_vars

\* groups whose members are named like the attributes _evaluate sets on
\* every group; a class statement is written with ordinary names
GroupNames == {"A", "name"}

NextNames ==
    \/ \E cls \in UseClasses : NewConstant(cls)
    \/ \E n \in GroupNames, o \in Objects : Assign(n, o)
    \/ \E c \in 1..Len(consts), g \in GroupClasses : ToGroup(c, g)
    \/ \E n \in ClassNames, k \in UseClasses : DefinePlain(n, k)

SpecNames == Init /\ [][NextNames]_vars

\* containers defined, and containers defined as their subclasses
SubclassNames == {"BAR"}
\* what the body of a subclass sets as constant_class
SubclassClasses == {Inherit, "ValueConstant"}

NextSubclass ==
    \/ \E cls \in UseClasses : NewConstant(cls)
    \/ \E n \in AttrNames, o \in Objects : Assign(n, o)
    \/ \E n \in ClassNames, k \in UseClasses : Define(n, k)
    \/ \E n \in SubclassNames, k \in SubclassClasses,
          b \in {c \in Finalized : classes[c].container = NoClass} :
          DefineSubclass(n, b, k)

SpecSubclass == Init /\ [][NextSubclass]_vars

(***************************** the claims **********************************)
Range(f) == {f[i] : i \in DOMAIN f}

\* the step taken is a class statement (a call of the metaclass)
DefineStep == last'.op = "define"

\* the objects the body of the class statement assigns to attributes
BodyObjects == {namespace[i][2] : i \in 1..Len(namespace)}

\* the constants the body assigns to attributes
BodyConstants == {o.id : o \in {x \in BodyObjects : x.kind = "const"}}

\* constant c is bound to a container whose definition succeeded
BoundToFinalized(c) ==
    /\ consts[c].container # NoClass
    /\ classes[consts[c].container].finalized

\* the containers (and groups) whose ordered mapping holds constant c
OwnersOf(c) ==
    {k \in 1..Len(classes) : ConstRef(c) \in Range(constants(classes, k))}

\* no class object the step created is a finalized container
NothingFinalized ==
    \A k \in 1..Len(classes') :
        (classes'[k].finalized /\ classes'[k].container = NoClass)
            => (k <= Len(classes) /\ classes[k].finalized)

C2_AtMostOneOwner ==
    \A c \in 1..Len(consts) : Cardinality(OwnersOf(c)) <= 1

\* C3: once a Constant is bound, no step changes its name or its container.
C3_BoundIdentityFrozen ==
    [][\A c \in 1..Len(consts) :
          consts[c].container # NoClass
              => /\ consts'[c].name = consts[c].name
                 /\ consts'[c].container = consts[c].container]_vars

\* the heap after the step
After == [consts |-> consts', classes |-> classes']

\* the ordered mapping of class k lists its members by ascending counter,
\* and its constants in the order of their construction
Ordered(h, k) ==
    \A i, j \in 1..Len(h.classes[k].constants) :
        i < j =>
            LET a == h.classes[k].constants[i][2]
                b == h.classes[k].constants[j][2]
            IN  /\ CounterOf(h, a) <= CounterOf(h, b)
                /\ (a.kind = "const" /\ b.kind = "const") => a.id < b.id

\* the attribute names of the body whose values the container owns: the
\* descriptors and the instances of constant_class
OwnedNames(constant_class) ==
    {namespace[i][1] : i \in
        {j \in 1..Len(namespace) :
            \/ namespace[j][2].kind = "lazy"
            \/ /\ namespace[j][2].kind = "const"
               /\ IsSubclass(consts[namespace[j][2].id].cls, constant_class)}}

\* C4: after any class statement, whatever the order of its body, names()
\* of the new container are exactly the owned attributes, in ascending
\* creation order; every finalized mapping is so ordered, and no later step
\* changes what names() returns.
C4_NamesInCreationOrder ==
    [][/\ (DefineStep /\ last'.err = "ok")
            => /\ Range(names(classes', last'.ret)) = OwnedNames(last'.arg)
               /\ Len(names(classes', last'.ret))
                      = Cardinality(OwnedNames(last'.arg))
       /\ \A k \in 1..Len(classes') :
              classes'[k].finalized => Ordered(After, k)
       /\ \A k \in 1..Len(classes) :
              classes[k].finalized
                  => names(classes', k) = names(classes, k)]_vars

\* C4 witness: a container of two constants whose names() starts with the
\* attribute that was bound last in the scan order seen by a group-free body
C4_Witness ==
    /\ last.op = "define"
    /\ last.err = "ok"
    /\ Len(classes[last.ret].constants) = 2
    /\ \A i \in 1..2 : classes[last.ret].constants[i][2].kind = "const"
    /\ names(classes, last.ret) = <<"B", "A">>

\* C5: a failed class statement leaves every Constant as it was.
C5_FailedDefinitionLeavesNoTrace ==
    [][(DefineStep /\ last'.err # "ok")
          => /\ consts' = consts
             /\ lazies' = lazies]_vars

C7_InvalidGroupMember ==
    [][(last'.op = "to_group"
           /\ \E o \in BodyObjects : o.kind \notin {"const", "lazy"})
          => /\ last'.err = "TypeError"
             /\ last'.about.kind \notin {"const", "lazy"}
             /\ lazies' = lazies
             /\ consts' = consts
             /\ classes' = classes]_vars

\* C7 witness: to_group on an unbound anchor has just rejected a member
C7_Witness ==
    /\ last.op = "to_group"
    /\ last.err = "TypeError"
    /\ last.about = Other
    /\ consts[last.ret].container = NoClass
    /\ consts[last.ret].name = None

\* descriptor l, or a descriptor among its members at any depth, has been
\* evaluated
RECURSIVE HoldsSpent(_)
HoldsSpent(l) ==
    \/ ~lazies[l].live
    \/ \E i \in 1..Len(lazies[l].group_members) :
          /\ lazies[l].group_members[i][2].kind = "lazy"
          /\ HoldsSpent(lazies[l].group_members[i][2].id)

\* the groups whose evaluation completed, and the descriptors evaluated
Groups(ks) == {k \in 1..Len(ks) : ks[k].container # NoClass /\ ks[k].finalized}
SpentLazies(ls) == {l \in 1..Len(ls) : ~ls[l].live}

\* C8: an evaluated descriptor has lost its anchor, group class and members
\* for good; a class statement whose body holds it (directly or inside
\* another descriptor) fails; and there is exactly one group per evaluated
\* descriptor, never a second.
C8_DescriptorSingleUse ==
    [][/\ \A l \in 1..Len(lazies) : ~lazies[l].live => lazies'[l] = Spent
       /\ (DefineStep /\ \E o \in BodyObjects :
                             o.kind = "lazy" /\ HoldsSpent(o.id))
              => /\ last'.err # "ok"
                 /\ NothingFinalized
       /\ (DefineStep /\ namespace # <<>> /\ namespace[1][2].kind = "lazy"
              /\ ~lazies[namespace[1][2].id].live
              /\ IsConstantClass(last'.arg))
              => /\ last'.err = "AttributeError"
                 /\ Len(classes') = Len(classes) + 1
       /\ Cardinality(Groups(classes')) = Cardinality(SpentLazies(lazies'))
      ]_vars

\* C8 witness: a class statement has just failed on a descriptor that an
\* earlier evaluation had turned into a group
C8_Witness ==
    /\ last.op = "define"
    /\ last.err = "AttributeError"
    /\ last.about.kind = "lazy"
    /\ ~lazies[last.about.id].live
    /\ Groups(classes) # {}

\* C9: every evaluated group carries the attribute name it was assigned to,
\* its parent's full name plus that name, its parent as container; and each
\* Constant member has the group as container and the group's full name
\* plus its own name as full name.
C9_GroupIdentity ==
    \A g \in Groups(classes) :
        LET p == classes[g].container
        IN  /\ classes[g].full_name
                   = classes[p].full_name \o "." \o classes[g].name
            /\ classes[p].finalized
                   => <<classes[g].name, ClassRef(g)>>
                          \in Range(classes[p].constants)
            /\ \A m \in Range(constants(classes, g)) :
                   m.kind = "const"
                       => /\ consts[m.id].container = g
                          /\ full_name(consts, classes, m.id)
                                 = classes[g].full_name \o "." \o
                                       Format(consts[m.id].name)

\* the groups a body will make, each with its full name and the counter of
\* its anchor: the descriptors of the body and, depth first, of their members
RECURSIVE ExpectedGroups(_, _)
ExpectedGroups(attributes, prefix) ==
    UNION {LET fn == prefix \o "." \o attributes[i][1]
               d == lazies[attributes[i][2].id]
           IN  {<<fn, consts[d.constant].creation_counter>>}
                   \cup ExpectedGroups(d.group_members, fn)
           : i \in {j \in 1..Len(attributes) : attributes[j][2].kind = "lazy"}}

\* C10: every group a class statement makes has the creation counter of its
\* descriptor's anchor, and every finalized mapping lists its members,
\* groups included, in ascending order of that counter.
C10_GroupOrderedByAnchor ==
    [][(DefineStep /\ last'.err = "ok")
          => /\ \A e \in ExpectedGroups(namespace,
                                        classes'[last'.ret].full_name) :
                    \E k \in (Len(classes) + 1)..Len(classes') :
                        /\ classes'[k].full_name = e[1]
                        /\ classes'[k].creation_counter = e[2]
                        /\ classes'[k].finalized
             /\ \A k \in (Len(classes) + 1)..Len(classes') :
                    /\ Ordered(After, k)
                    /\ \A i \in 1..Len(classes'[k].constants) :
                          LET m == classes'[k].constants[i][2]
                          IN  m.kind = "class"
                                 => classes'[m.id].creation_counter >= 0]_vars

\* C10 witness: a container lists a group before a constant that was
\* constructed after the group's anchor
C10_Witness ==
    \E k \in 1..Len(classes) :
        /\ classes[k].finalized
        /\ Len(classes[k].constants) = 2
        /\ classes[k].constants[1][2].kind = "class"
        /\ classes[k].constants[2][2].kind = "const"
        /\ CounterOf([consts |-> consts, classes |-> classes],
                     classes[k].constants[1][2])
               < consts[classes[k].constants[2][2].id].creation_counter

\* the step is a class statement with a valid constant_class
ValidDefineStep == DefineStep /\ IsConstantClass(last'.arg)

\* C11: a class statement whose body assigns an evaluated group that a
\* parent container owns fails with the already-bound ValueError.
C11_GroupReuseFails ==
    [][(/\ ValidDefineStep
        /\ \E o \in BodyObjects :
              /\ o.kind = "class"
              /\ classes[o.id].finalized
              /\ classes[o.id].container # NoClass
              /\ <<classes[o.id].name, o>>
                     \in Range(classes[classes[o.id].container].constants))
          => /\ last'.err = "ValueError"
             /\ last'.ret = 0]_vars

\* the objects passed as members to descriptor l, at any depth
RECURSIVE MembersOf(_)
MembersOf(l) ==
    LET direct == {lazies[l].group_members[i][2] :
                      i \in 1..Len(lazies[l].group_members)}
    IN  direct \cup UNION {MembersOf(o.id) : o \in {x \in direct : x.kind = "lazy"}}

\* the members of the descriptors the body assigns
BodyNested ==
    UNION {MembersOf(o.id) : o \in {x \in BodyObjects : x.kind = "lazy"}}

\* attribute i of the body holds a Constant that is no instance of the
\* constant_class of the container being defined
Unowned(i) ==
    /\ namespace[i][2].kind = "const"
    /\ ~IsSubclass(consts[namespace[i][2].id].cls, last'.arg)

\* the body assigns the object of attribute i nowhere else
AssignedOnce(i) ==
    /\ \A j \in 1..Len(namespace) : j # i => namespace[j][2] # namespace[i][2]
    /\ namespace[i][2] \notin BodyNested

\* after the step constant c is a plain attribute n of container k: in its
\* __dict__, outside names(), constants() and len(), named n, unbound
PlainAttribute(n, c, k) ==
    /\ <<n, ConstRef(c)>> \in classes'[k].attrs
    /\ n \notin Range(names(classes', k))
    /\ ConstRef(c) \notin Range(constants(classes', k))
    /\ len(classes', k) = Cardinality(OwnedNames(last'.arg))
    /\ consts'[c].name = n
    /\ consts'[c].container = NoClass
    /\ full_name(consts', classes', c) = "__UNBOUND__." \o n

\* C12 as stated: after a successful class statement every body attribute
\* holding a Constant that is no instance of constant_class is a plain
\* attribute: reachable, not a member, named after the attribute, unbound.
C12_CovariantAttribute ==
    [][(DefineStep /\ last'.err = "ok")
          => \A i \in 1..Len(namespace) :
                Unowned(i)
                    => PlainAttribute(namespace[i][1], namespace[i][2].id,
                                      last'.ret)]_vars

\* C12 amended: the same for a Constant the body assigns once only, under
\* one attribute and in no member list of a descriptor of the body.
C12_CovariantAttributeAssignedOnce ==
    [][(DefineStep /\ last'.err = "ok")
          => \A i \in 1..Len(namespace) :
                (Unowned(i) /\ AssignedOnce(i))
                    => PlainAttribute(namespace[i][1], namespace[i][2].id,
                                      last'.ret)]_vars

\* C12 witness: a container of ValueConstant with one member and, beside
\* it, a Constant of the base class as plain attribute
C12_Witness ==
    /\ last.op = "define"
    /\ last.err = "ok"
    /\ last.arg = "ValueConstant"
    /\ len(classes, last.ret) = 1
    /\ \E a \in classes[last.ret].attrs :
          /\ a[2].kind = "const"
          /\ consts[a[2].id].cls = "Constant"
          /\ consts[a[2].id].name = a[1]
          /\ consts[a[2].id].container = NoClass
          /\ a[1] \notin Range(names(classes, last.ret))

\* C13: the full name of a bound Constant is its container's full name, a
\* dot and its name; that of an unbound one is "__UNBOUND__", a dot and its
\* name.
C13_FullNameComposition ==
    \A c \in 1..Len(consts) :
        full_name(consts, classes, c)
            = (IF consts[c].container # NoClass
               THEN classes[consts[c].container].full_name
               ELSE "__UNBOUND__") \o "." \o Format(consts[c].name)

\* the heap is as it was before the step
HeapUnchanged ==
    /\ consts' = consts
    /\ lazies' = lazies
    /\ classes' = classes

\* C14: an attempt to instantiate a container (ConstantsContainer itself, a
\* container with or without members, a group) raises TypeError about that
\* class, returns no instance and changes no mapping.
C14_NotInstantiable ==
    [][last'.op = "new"
          => /\ last'.err = "TypeError"
             /\ last'.about = last'.self
             /\ last'.val = NoObject
             /\ HeapUnchanged]_vars

\* C14 witness: the instantiation of a group that has a member has failed
C14_Witness ==
    /\ last.op = "new"
    /\ last.err = "TypeError"
    /\ last.self.kind = "class"
    /\ last.self.id \in Groups(classes)
    /\ len(classes, last.self.id) = 1

\* C15: no step changes the ordered mapping of a finalized container, nor
\* takes its finalization back: not a lookup, not an instantiation attempt,
\* not the definition of another container, whether it succeeds or fails.
C15_FinalizedImmutable ==
    [][\A k \in 1..Len(classes) :
          classes[k].finalized
              => /\ classes'[k].finalized
                 /\ classes'[k].constants = classes[k].constants]_vars

\* C15 witness: the definition of another container has just failed on a
\* constant that is a member of a finalized container
C15_Witness ==
    /\ last.op = "define"
    /\ last.err = "ValueError"
    /\ \E k \in Finalized : last.about \in Range(constants(classes, k))

\* C16: cls[name] returns the member stored under a declared name, raises
\* KeyError about the container for any other name, and changes nothing.
C16_GetItem ==
    [][last'.op = "getitem"
          => LET k == last'.self.id
                 n == last'.arg
             IN  /\ n \in Range(names(classes, k))
                        => /\ last'.err = "ok"
                           /\ <<n, last'.val>> \in Range(classes[k].constants)
                 /\ n \notin Range(names(classes, k))
                        => /\ last'.err = "KeyError"
                           /\ last'.about = ClassRef(k)
                           /\ last'.val = NoObject
                 /\ HeapUnchanged]_vars

\* C16 witness: a lookup of an undeclared name in a container that has a
\* member has raised KeyError
C16_Witness ==
    /\ last.op = "getitem"
    /\ last.err = "KeyError"
    /\ last.arg = "missing"
    /\ names(classes, last.self.id) = <<"A">>

\* C17: cls.get(name, default) never raises: it returns what cls[name]
\* returns for a declared name and the default (None when omitted) for any
\* other name, and changes nothing.
C17_GetNeverRaises ==
    [][last'.op = "get"
          => LET k == last'.self.id
                 n == last'.arg
             IN  /\ last'.err = "ok"
                 /\ n \in Range(names(classes, k))
                        => <<n, last'.val>> \in Range(classes[k].constants)
                 /\ n \notin Range(names(classes, k))
                        => last'.val = last'.other
                 /\ HeapUnchanged]_vars

\* the pairs of two lists of one length
Zip(a, b) == [i \in 1..Len(a) |-> <<a[i], b[i]>>]

\* C18: for every finalized container or group, items() is the zip of
\* names() and constants(), iteration and iternames() give names(), len() is
\* the length of names(), and `in` and has_name() hold exactly for the
\* names of names(); len(cls), `name in cls` and cls.has_name(name), when
\* called, answer so.
C18_AccessorsAgree ==
    /\ \A k \in Finalized :
          /\ items(classes, k) = Zip(names(classes, k), constants(classes, k))
          /\ iter(classes, k) = names(classes, k)
          /\ iternames(classes, k) = names(classes, k)
          /\ len(classes, k) = Len(names(classes, k))
          /\ \A n \in LookupNames :
                /\ contains(classes, k, n) <=> n \in Range(names(classes, k))
                /\ has_name(classes, k, n) <=> n \in Range(names(classes, k))
    /\ last.op = "len"
          => last.val = PyInt(Len(names(classes, last.self.id)))
    /\ last.op \in {"in", "has_name"}
          => /\ last.err = "ok"
             /\ last.val
                   = PyBool(last.arg \in Range(names(classes, last.self.id)))

\* C19: two Constants are equal exactly when their full names are equal,
\* and equal Constants have equal hashes; a Constant equals no object that
\* is not a Constant; == and the comparison of hashes, when made, answer so.
C19_EqualityByFullName ==
    /\ \A c, d \in 1..Len(consts) :
          /\ eq(consts, classes, c, ConstRef(d))
                 <=> full_name(consts, classes, c) = full_name(consts, classes, d)
          /\ ne(consts, classes, c, ConstRef(d))
                 <=> full_name(consts, classes, c) # full_name(consts, classes, d)
          /\ eq(consts, classes, c, ConstRef(d))
                 => hash(consts, classes, c) = hash(consts, classes, d)
    /\ \A c \in 1..Len(consts), o \in Objects :
          o.kind # "const" => ~eq(consts, classes, c, o)
    /\ last.op = "eq"
          => last.val = PyBool(/\ last.other.kind = "const"
                               /\ full_name(consts, classes, last.self.id)
                                    = full_name(consts, classes, last.other.id))
    /\ (last.op = "hash"
           /\ full_name(consts, classes, last.self.id)
                  = full_name(consts, classes, last.other.id))
          => last.val = PyBool(TRUE)

\* C19 witness: two constants, members "A" of two containers both named
\* FOO, have compared equal
C19_Witness ==
    /\ last.op = "eq"
    /\ last.val = PyBool(TRUE)
    /\ last.self # last.other
    /\ last.other.kind = "const"
    /\ consts[last.self.id].container # NoClass
    /\ consts[last.other.id].container # NoClass
    /\ consts[last.self.id].container # consts[last.other.id].container
    /\ full_name(consts, classes, last.self.id) = "FOO.A"

\* C20: a class statement gives the container one member at most under
\* each name, the object the body assigned to the name last; a Constant the
\* body assigned and then replaced, and uses nowhere else, is no member and
\* is left as it was; and a second assignment of a name replaces the entry
\* of that name.
C20_LaterAssignmentWins ==
    [][/\ (DefineStep /\ last'.err = "ok")
            => LET k == last'.ret
               IN  /\ \A i, j \in 1..Len(classes'[k].constants) :
                         classes'[k].constants[i][1] = classes'[k].constants[j][1]
                             => i = j
                   /\ \A i \in 1..Len(namespace) :
                         (/\ namespace[i][2].kind = "const"
                          /\ IsSubclass(consts[namespace[i][2].id].cls, last'.arg))
                             => /\ namespace[i] \in Range(classes'[k].constants)
                                /\ \A j \in 1..Len(namespace) :
                                      namespace[j][1] = namespace[i][1] => j = i
                   /\ \A o \in shadowed :
                         (o.kind = "const" /\ o \notin BodyObjects
                              /\ o \notin BodyNested)
                             => /\ o \notin Range(constants(classes', k))
                                /\ consts'[o.id] = consts[o.id]
       /\ shadowed' \notin {shadowed, {}}
            => /\ Keys(namespace') = Keys(namespace)
               /\ Len(namespace') = Len(namespace)
               /\ \A i, j \in 1..Len(namespace') :
                     namespace'[i][1] = namespace'[j][1] => i = j]_vars

\* C20 witness: a container whose body assigned A twice has the second
\* constant as its only member; the first is unbound and has no name
C20_Witness ==
    /\ last.op = "define"
    /\ last.err = "ok"
    /\ shadowed = {ConstRef(1)}
    /\ names(classes, last.ret) = <<"A">>
    /\ constants(classes, last.ret) = <<ConstRef(2)>>
    /\ consts[1].container = NoClass
    /\ consts[1].name = None

\* C21: every construction of a Constant, of whatever subclass, stores the
\* current value of the shared counter in the new instance and raises the
\* counter by exactly one; the tokens of the instances constructed before
\* stay as they were and are all below the new one.
C21_CounterTokens ==
    [][Len(consts') > Len(consts)
          => /\ Len(consts') = Len(consts) + 1
             /\ consts'[Len(consts')].creation_counter = creation_counter
             /\ creation_counter' = creation_counter + 1
             /\ \A i \in 1..Len(consts) :
                   /\ consts'[i].creation_counter = consts[i].creation_counter
                   /\ consts[i].creation_counter
                          < consts'[Len(consts')].creation_counter]_vars

\* C21 witness: a VerboseValueConstant constructed after a Constant of the
\* base class holds the greater token, and the counter is past both
C21_Witness ==
    /\ Len(consts) = 2
    /\ consts[1].cls = "Constant"
    /\ consts[2].cls = "VerboseValueConstant"
    /\ consts[1].creation_counter < consts[2].creation_counter
    /\ creation_counter = consts[2].creation_counter + 1

\* C22: whatever the interleaving of the threads that construct Constants,
\* no two Constants hold the same token.
C22_TokensDistinct ==
    \A i, j \in 1..Len(consts) :
        i # j => consts[i].creation_counter # consts[j].creation_counter

\* C23: for every finalized container and group, to_primitive() is a record
\* whose name is the container's own name and whose items are as many as
\* len(container), the i-th named as the i-th of names(); the groups among
\* the items are finalized themselves, so this holds at every level; and
\* to_primitive(), when called, answers so.
C23_PrimitiveMirrorsTree ==
    /\ \A k \in Finalized :
          LET p == to_primitive(consts, classes, ClassRef(k))
          IN  /\ DOMAIN p = {"name", "items"}
              /\ p["name"] = classes[k].name
              /\ Len(p["items"]) = len(classes, k)
              /\ \A i \in 1..Len(p["items"]) :
                    p["items"][i]["name"] = names(classes, k)[i]
    /\ last.op = "to_primitive"
          => last.val = PyDict(to_primitive(consts, classes, last.self))

\* the payload attributes of the anchors of the descriptors of a body, each
\* with the full name of the group the descriptor will make, depth first
RECURSIVE ExpectedPayloads(_, _)
ExpectedPayloads(attributes, prefix) ==
    UNION {LET fn == prefix \o "." \o attributes[i][1]
               d == lazies[attributes[i][2].id]
           IN  {<<fn, consts[d.constant].payload>>}
                   \cup ExpectedPayloads(d.group_members, fn)
           : i \in {j \in 1..Len(attributes) : attributes[j][2].kind = "lazy"}}

\* the payload attributes class k exposes
PayloadOf(ks, k) ==
    {a \in ks[k].attrs : a[1] \in {"value", "verbose_name", "help_text"}}

\* C24: every group a class statement makes exposes the payload of its
\* anchor: the value of a ValueConstant, the verbose_name and help_text of
\* a verbose constant, all three of a VerboseValueConstant, and nothing
\* else; and no later step changes what a group exposes.
C24_GroupCarriesPayload ==
    [][/\ (DefineStep /\ last'.err = "ok")
            => \A e \in ExpectedPayloads(namespace,
                                         classes'[last'.ret].full_name) :
                  \E k \in (Len(classes) + 1)..Len(classes') :
                      /\ classes'[k].full_name = e[1]
                      /\ PayloadOf(classes', k)
                            = {<<a, e[2][a]>> : a \in DOMAIN e[2]}
       /\ \A k \in 1..Len(classes) :
              classes[k].finalized
                  => PayloadOf(classes', k) = PayloadOf(classes, k)]_vars

\* C24 witness: a group made from a VerboseValueConstant exposes its value,
\* verbose_name and help_text, and has a member with another value
C24_Witness ==
    \E g \in Groups(classes) :
        /\ PayloadOf(classes, g)
              = {<<"value", PyInt(2)>>, <<"verbose_name", PyStr(1)>>,
                 <<"help_text", PyStr(2)>>}
        /\ \E m \in Range(constants(classes, g)) :
              /\ m.kind = "const"
              /\ consts[m.id].cls = "ValueConstant"
              /\ consts[m.id].payload["value"] = PyInt(1)

\* C25: to_primitive() of a constant holds its name and its payload
\* attributes; to_primitive() of a group holds its name, its items and the
\* payload attributes the group took from its anchor; and to_primitive(),
\* when called, answers so.
C25_PrimitiveCarriesPayload ==
    /\ \A c \in 1..Len(consts) :
          LET p == to_primitive(consts, classes, ConstRef(c))
          IN  /\ "name" \in DOMAIN p
              /\ \A a \in DOMAIN consts[c].payload :
                    a \in DOMAIN p /\ p[a] = consts[c].payload[a]
    /\ \A g \in Groups(classes) :
          LET p == to_primitive(consts, classes, ClassRef(g))
          IN  /\ {"name", "items"} \subseteq DOMAIN p
              /\ \A a \in PayloadOf(classes, g) :
                    a[1] \in DOMAIN p /\ p[a[1]] = a[2]
    /\ last.op = "to_primitive"
          => last.val = PyDict(to_primitive(consts, classes, last.self))

\* the descriptors of a body and, depth first, of their members, each with
\* the full name of the group it will make
RECURSIVE ExpectedDescriptors(_, _)
ExpectedDescriptors(attributes, prefix) ==
    UNION {LET fn == prefix \o "." \o attributes[i][1]
           IN  {<<fn, attributes[i][2].id>>}
                   \cup ExpectedDescriptors(
                            lazies[attributes[i][2].id].group_members, fn)
           : i \in {j \in 1..Len(attributes) : attributes[j][2].kind = "lazy"}}

\* C26: when a class statement succeeds, every descriptor of its body, at
\* any depth, has been evaluated: the descriptor is spent, a finalized group
\* of its full name exists, no class the statement made holds a descriptor
\* as attribute (a group is there in its place), and every Constant member
\* of every such group is bound to the group.
C26_DescriptorsEvaluated ==
    [][(DefineStep /\ last'.err = "ok")
          => /\ \A e \in ExpectedDescriptors(namespace,
                                              classes'[last'.ret].full_name) :
                    /\ ~lazies'[e[2]].live
                    /\ \E k \in (Len(classes) + 1)..Len(classes') :
                          /\ classes'[k].full_name = e[1]
                          /\ classes'[k].finalized
                          /\ <<classes'[k].name, ClassRef(k)>>
                                \in classes'[classes'[k].container].attrs
                          /\ \A m \in Range(constants(classes', k)) :
                                m.kind = "const"
                                    => consts'[m.id].container = k
             /\ \A k \in (Len(classes) + 1)..Len(classes') :
                    \A a \in classes'[k].attrs :
                        /\ a[2].kind # "lazy"
                        /\ a[2].kind = "class" => classes'[a[2].id].finalized
                ]_vars

\* C27: in every finalized container and group the members have pairwise
\* distinct creation counters.
C27_DistinctCounters ==
    \A k \in Finalized :
        \A i, j \in 1..Len(classes[k].constants) :
            i # j => CounterOf([consts |-> consts, classes |-> classes],
                               classes[k].constants[i][2])
                       # CounterOf([consts |-> consts, classes |-> classes],
                                   classes[k].constants[j][2])

\* the body assigns the unbound constant c under two attribute names
AssignedTwice(c) ==
    /\ consts[c].container = NoClass
    /\ \E i, j \in 1..Len(namespace) :
          i # j /\ namespace[i][2] = ConstRef(c) /\ namespace[j][2] = ConstRef(c)

C29_GroupKeepsMembers ==
    [][(DefineStep /\ last'.err = "ok")
          => \A e \in ExpectedDescriptors(namespace,
                                          classes'[last'.ret].full_name) :
                \E k \in (Len(classes) + 1)..Len(classes') :
                    /\ classes'[k].full_name = e[1]
                    /\ \A i \in 1..Len(lazies[e[2]].group_members) :
                          LET m == lazies[e[2]].group_members[i]
                          IN  (\/ m[2].kind = "lazy"
                               \/ /\ m[2].kind = "const"
                                  /\ IsSubclass(consts[m[2].id].cls,
                                                lazies[e[2]].group_class))
                                 => m[1] \in Range(names(classes', k))]_vars

\* C30: a class statement that subclasses a finalized container gives the
\* new container the owned attributes of its own body as names() and
\* nothing else; no member of the parent is a member of the subclass;
\* every Constant of the parent keeps its name and stays bound to the
\* parent; and the parent is left as it was.
C30_SubclassOwnsOwnBody ==
    [][(DefineStep /\ last'.err = "ok" /\ last'.other.kind = "class")
          => LET s == last'.ret
                 p == last'.other.id
             IN  /\ Range(names(classes', s)) = OwnedNames(last'.arg)
                 /\ Len(names(classes', s)) = Cardinality(OwnedNames(last'.arg))
                 /\ \A m \in Range(constants(classes, p)) :
                       /\ m \notin Range(constants(classes', s))
                       /\ m.kind = "const"
                             => /\ consts'[m.id].container = p
                                /\ consts'[m.id].name = consts[m.id].name
                 /\ classes'[p] = classes[p]]_vars

====
